---- MODULE Spec2Model ----
(***************************************************************************)
(* Model of the Michigan Mammal Monitoring dashboard: the record           *)
(* normalizer (loadDetectionData), the filter effect of App, and the       *)
(* aggregate views derived from the filtered collection: histograms,       *)
(* species rankings, the array species table and the map points.           *)
(*                                                                         *)
(* Text is modelled as sequences of one-character strings, so that         *)
(* parseInt, parseFloat, trim, new Date(...) and sort() are computed the   *)
(* way JavaScript computes them rather than assumed.                       *)
(* Floating-point coordinates are fixed-point numbers counted in tenths    *)
(* (42.1 is 421); the raw rows carry at most one fractional digit.         *)
(***************************************************************************)
EXTENDS Integers, Sequences, FiniteSets, TLC

\* -------------------------------------------------------------------------
\* Bounds of the model
\* -------------------------------------------------------------------------

\* Largest number of rows in the CSV file.
MaxRows == 2

\* -------------------------------------------------------------------------
\* JavaScript values and text
\* -------------------------------------------------------------------------

\* The value of a column that the row does not have (row.x === undefined).
Undefined == <<"undefined">>

\* The empty string ''.
EmptyStr == <<>>

Digits == {"0", "1", "2", "3", "4", "5", "6", "7", "8", "9"}

DigitVal ==
    "0" :> 0 @@ "1" :> 1 @@ "2" :> 2 @@ "3" :> 3 @@ "4" :> 4 @@
    "5" :> 5 @@ "6" :> 6 @@ "7" :> 7 @@ "8" :> 8 @@ "9" :> 9

\* String.prototype.charCodeAt for the characters the rows use.
CharCode ==
    " " :> 32 @@ "-" :> 45 @@ "." :> 46 @@ ":" :> 58 @@
    "0" :> 48 @@ "1" :> 49 @@ "2" :> 50 @@ "3" :> 51 @@ "4" :> 52 @@
    "5" :> 53 @@ "6" :> 54 @@ "7" :> 55 @@ "8" :> 56 @@ "9" :> 57 @@
    "A" :> 65 @@ "B" :> 66 @@ "D" :> 68 @@ "F" :> 70 @@ "L" :> 76 @@
    "P" :> 80 @@ "U" :> 85 @@
    "a" :> 97 @@ "e" :> 101 @@ "k" :> 107 @@ "l" :> 108 @@ "n" :> 110 @@
    "o" :> 111 @@ "r" :> 114 @@ "x" :> 120

\* A JavaScript value is falsy when it is undefined or ''.
Truthy(s) == s # Undefined /\ s # EmptyStr

\* row.x || ''
OrEmpty(s) == IF Truthy(s) THEN s ELSE EmptyStr

RECURSIVE TrimStart(_)
TrimStart(s) ==
    IF s # <<>> /\ Head(s) = " " THEN TrimStart(Tail(s)) ELSE s

RECURSIVE TrimEnd(_)
TrimEnd(s) ==
    IF s # <<>> /\ s[Len(s)] = " " THEN TrimEnd(SubSeq(s, 1, Len(s) - 1)) ELSE s

\* String.prototype.trim
Trim(s) == TrimEnd(TrimStart(s))

\* A number that may be NaN.
NaN == [nan |-> TRUE, val |-> 0]

Num(n) == [nan |-> FALSE, val |-> n]

\* The longest prefix of s made of decimal digits.
RECURSIVE DigitPrefix(_)
DigitPrefix(s) ==
    IF s # <<>> /\ Head(s) \in Digits
    THEN <<Head(s)>> \o DigitPrefix(Tail(s))
    ELSE <<>>

\* The value of a sequence of decimal digits.
RECURSIVE DigitsValue(_)
DigitsValue(ds) ==
    IF ds = <<>> THEN 0
    ELSE DigitsValue(SubSeq(ds, 1, Len(ds) - 1)) * 10 + DigitVal[ds[Len(ds)]]

\* The sign prefix of a numeric literal: <<sign, rest>>.
SplitSign(s) ==
    IF s # <<>> /\ Head(s) = "-" THEN <<-1, Tail(s)>>
    ELSE IF s # <<>> /\ Head(s) = "+" THEN <<1, Tail(s)>>
    ELSE <<1, s>>

\* parseInt(s): leading white space is skipped, an optional sign and the
\* longest run of digits are read, anything after it is ignored; NaN when
\* there is no digit. parseInt(undefined) reads the text "undefined".
ParseInt(s) ==
    IF s = Undefined THEN NaN
    ELSE LET sr == SplitSign(TrimStart(s))
             ds == DigitPrefix(sr[2])
         IN  IF ds = <<>> THEN NaN ELSE Num(sr[1] * DigitsValue(ds))

\* parseFloat(s), in tenths: as parseInt, then an optional "." and
\* fraction digits, of which the rows carry at most one.
ParseFloat(s) ==
    IF s = Undefined THEN NaN
    ELSE LET sr   == SplitSign(TrimStart(s))
             ds   == DigitPrefix(sr[2])
             rest == SubSeq(sr[2], Len(ds) + 1, Len(sr[2]))
             fs   == IF rest # <<>> /\ Head(rest) = "."
                     THEN DigitPrefix(Tail(rest)) ELSE <<>>
             frac == IF fs = <<>> THEN 0 ELSE DigitVal[fs[1]]
         IN  IF ds = <<>> /\ fs = <<>> THEN NaN
             ELSE Num(sr[1] * (DigitsValue(ds) * 10 + frac))

\* x || d for a number x: NaN and 0 are falsy.
OrDefault(x, d) == IF x.nan \/ x.val = 0 THEN d ELSE x.val

\* The Date for which isNaN(date.getTime()).
InvalidDate == [valid |-> FALSE, year |-> 0, month |-> 0, hour |-> 0]

AllDigits(s) == \A i \in 1..Len(s) : s[i] \in Digits

\* new Date(s) for the timestamps of the data release, "YYYY-MM-DD HH:MM",
\* read as local time; any other text gives an invalid Date.
\* month is 0-based as getMonth() returns it.
ParseDate(s) ==
    IF s = Undefined \/ Len(s) # 16 THEN InvalidDate
    ELSE LET yy == SubSeq(s, 1, 4)
             mm == SubSeq(s, 6, 7)
             dd == SubSeq(s, 9, 10)
             hh == SubSeq(s, 12, 13)
             mi == SubSeq(s, 15, 16)
         IN  IF /\ AllDigits(yy) /\ AllDigits(mm) /\ AllDigits(dd)
                /\ AllDigits(hh) /\ AllDigits(mi)
                /\ s[5] = "-" /\ s[8] = "-" /\ s[11] = " " /\ s[14] = ":"
                /\ DigitsValue(mm) \in 1..12
                /\ DigitsValue(dd) \in 1..28
                /\ DigitsValue(hh) \in 0..23
                /\ DigitsValue(mi) \in 0..59
             THEN [valid |-> TRUE,
                   year  |-> DigitsValue(yy),
                   month |-> DigitsValue(mm) - 1,
                   hour  |-> DigitsValue(hh)]
             ELSE InvalidDate

\* What getHours() and getMonth() return for an invalid Date (NaN): like
\* NaN, -1 is no index of a histogram.
NaNIndex == -1

getHours(t) == IF t.valid THEN t.hour ELSE NaNIndex

getMonth(t) == IF t.valid THEN t.month ELSE NaNIndex

getFullYear(t) == IF t.valid THEN t.year ELSE NaNIndex


\* -------------------------------------------------------------------------
\* The raw rows (DetectionRecord) and the CSV files of the model
\* -------------------------------------------------------------------------

\* The sentinel of the multi-selects, 'All'.
All == <<"A", "l", "l">>

\* The common name that marks an empty frame, 'Blank'.
Blank == <<"B", "l", "a", "n", "k">>

Deer == <<"D", "e", "e", "r">>

Fox == <<"F", "o", "x">>

\* The region and the array name of the rows; other rows have none.
RegionUP == <<"U", "P">>

ArrayA1 == <<"A", "1">>

\* Timestamps of the rows: March 2019 (month index 26), April 2019 (27)
\* and December 2016 (before the first month of the slider).
TimeMar2019 == <<"2", "0", "1", "9", "-", "0", "3", "-", "1", "5", " ", "1", "4", ":", "3", "0">>

TimeApr2019 == <<"2", "0", "1", "9", "-", "0", "4", "-", "0", "2", " ", "0", "9", ":", "0", "5">>

TimeDec2016 == <<"2", "0", "1", "6", "-", "1", "2", "-", "2", "0", " ", "2", "3", ":", "1", "0">>

\* A start_time that new Date cannot read.
TimeGarbled == <<"n", "a">>

\* One row of the parsed CSV, keyed by the column names of the header
\* (the pass-through columns sequence_id and deployment_id are left out).
Row(Year, common_name, start_time, group_size, Latitude, Longitude, Region, Array_Name) ==
    [Year |-> Year, common_name |-> common_name, start_time |-> start_time,
     group_size |-> group_size, Latitude |-> Latitude, Longitude |-> Longitude,
     Region |-> Region, Array_Name |-> Array_Name]

\* The rows a CSV file of the model is made of.
RowPool ==
    { Row(<<"2", "0", "1", "9">>, Deer, TimeMar2019, <<"2">>, <<"4", "2", ".", "1">>, <<"-", "8", "4", ".", "5">>, EmptyStr, ArrayA1),
      Row(<<"2", "0", "1", "9">>, Fox, TimeApr2019, <<"-", "3">>, <<"4", "5", ".", "0">>, <<"-", "8", "4", ".", "5">>, RegionUP, EmptyStr),
      Row(<<"2", "0", "1", "9">>, Deer, TimeGarbled, EmptyStr, <<"4", "5", ".", "0">>, <<"-", "8", "4", ".", "5">>, RegionUP, ArrayA1),
      Row(<<"2", "0", "1", "6">>, Fox, TimeDec2016, <<"0">>, <<"4", "5", ".", "0">>, <<"-", "8", "4", ".", "5">>, RegionUP, ArrayA1),
      Row(<<"2", "0", "1", "9">>, Blank, TimeMar2019, <<"1">>, <<"4", "2", ".", "1">>, <<"-", "8", "4", ".", "5">>, RegionUP, ArrayA1),
      Row(<<"n", "a">>, Deer, TimeMar2019, <<"2">>, <<"4", "2", ".", "1">>, <<"-", "8", "4", ".", "5">>, RegionUP, ArrayA1),
      Row(<<"2", "0", "1", "9">>, Fox, TimeApr2019, <<"1">>, <<"0", ".", "0">>, <<"-", "8", "4", ".", "5">>, RegionUP, ArrayA1),
      Row(<<"2", "0", "1", "9">>, <<" ", " ">>, TimeApr2019, <<"1">>, <<"4", "2", ".", "1">>, Undefined, Undefined, Undefined) }

\* The CSV files: every sequence of at most MaxRows rows.
RowSeqs == UNION { [1..n -> RowPool] : n \in 0..MaxRows }

\* What Papa.parse reads from the page of an HTTP error: the first line is
\* taken for the header, so the rows have none of the columns of the survey.
ErrorPageRows ==
    << Row(Undefined, Undefined, Undefined, Undefined, Undefined, Undefined,
           Undefined, Undefined),
       Row(Undefined, Undefined, Undefined, Undefined, Undefined, Undefined,
           Undefined, Undefined) >>

\* -------------------------------------------------------------------------
\* Record Normalizer (loadDetectionData)
\* -------------------------------------------------------------------------

\* Mutant of KeepRow: the sentinel 'Blank' is not tested.
KeepRowAcceptsBlank(row) ==
    /\ Truthy(row.common_name)
    /\ Trim(row.common_name) # EmptyStr

\* The first filter: row.common_name && row.common_name.trim() !== '' &&
\* row.common_name !== 'Blank'.
KeepRow(row) ==
    /\ Truthy(row.common_name)
    /\ Trim(row.common_name) # EmptyStr
    /\ row.common_name # Blank

\* The map step: one ProcessedDetection from one row.
ProcessRow(row) ==
    LET startTime == ParseDate(row.start_time)
    IN  [year       |-> OrDefault(ParseInt(row.Year), 0),
         commonName |-> row.common_name,
         startTime  |-> startTime,
         groupSize  |-> OrDefault(ParseInt(row.group_size), 1),
         latitude   |-> OrDefault(ParseFloat(row.Latitude), 0),
         longitude  |-> OrDefault(ParseFloat(row.Longitude), 0),
         hour       |-> getHours(startTime),
         month      |-> getMonth(startTime),
         region     |-> OrEmpty(row.Region),
         arrayName  |-> OrEmpty(row.Array_Name)]

\* Mutant of KeepRecord: the latitude test is forgotten.
KeepRecordNoLatitude(d) == d.year > 0 /\ d.longitude # 0

\* The final filter: d.year > 0 && d.latitude !== 0 && d.longitude !== 0.
KeepRecord(d) == d.year > 0 /\ d.latitude # 0 /\ d.longitude # 0

\* results.data.filter(...).map(...).filter(...)
ProcessRows(data) ==
    LET named  == SelectSeq(data, KeepRow)
        mapped == [i \in 1..Len(named) |-> ProcessRow(named[i])]
    IN  SelectSeq(mapped, KeepRecord)

\* -------------------------------------------------------------------------
\* Dimension Extractor
\* -------------------------------------------------------------------------

\* The elements of a sequence.
Range(s) == { s[i] : i \in 1..Len(s) }

\* Array.prototype.includes
Includes(s, x) == x \in Range(s)

\* The order of the default sort(): by UTF-16 code units, a proper prefix
\* first.
RECURSIVE StrLess(_, _)
StrLess(a, b) ==
    IF b = <<>> THEN FALSE
    ELSE IF a = <<>> THEN TRUE
    ELSE IF CharCode[Head(a)] # CharCode[Head(b)]
         THEN CharCode[Head(a)] < CharCode[Head(b)]
         ELSE StrLess(Tail(a), Tail(b))

\* Array.from(set).sort() for a Set of strings.
RECURSIVE SortStrings(_)
SortStrings(S) ==
    IF S = {} THEN <<>>
    ELSE LET least == CHOOSE x \in S : \A y \in S \ {x} : StrLess(x, y)
         IN  <<least>> \o SortStrings(S \ {least})

getUniqueSpecies(data) ==
    SortStrings({ data[i].commonName : i \in 1..Len(data) })

\* Mutant of getUniqueRegions: the empty region is not filtered out.
getUniqueRegionsKeepsEmpty(data) ==
    SortStrings({ data[i].region : i \in 1..Len(data) })

getUniqueRegions(data) ==
    SortStrings({ data[i].region : i \in 1..Len(data) } \ {EmptyStr})

getUniqueArrayNames(data) ==
    SortStrings({ data[i].arrayName : i \in 1..Len(data) } \ {EmptyStr})


\* -------------------------------------------------------------------------
\* State of App
\* -------------------------------------------------------------------------

VARIABLES
    response,            \* what fetch settles with: a CSV file, an HTTP error, no answer
    rows,                \* the rows Papa.parse reads from the text of the response
    allData,             \* useState: the base normalized collection
    filteredData,        \* useState: the filtered collection
    species,             \* useState: options of the species select
    regions,             \* useState: options of the region select
    arrayNames,          \* useState: options of the array select
    selectedSpecies,     \* useState: selected species
    selectedRegions,     \* useState: selected regions
    selectedArrayNames,  \* useState: selected array names
    dateRange,           \* useState: <<startMonthIndex, endMonthIndex>>
    loading,             \* useState: the load has not settled yet
    error,               \* useState: message of a failed load, "" when none
    effectPending        \* the filter effect is scheduled and has not run

vars ==
    <<response, rows, allData, filteredData, species, regions, arrayNames,
      selectedSpecies, selectedRegions, selectedArrayNames, dateRange,
      loading, error, effectPending>>

\* The ends of the date slider: January 2017 and June 2025.
minDate == 0

maxDate == 101

\* The year of month index 0.
BaseYear == 2017

\* The positions of the date slider that the model tries.
SliderStops == {minDate, 26, maxDate}

\* -------------------------------------------------------------------------
\* Filter Engine (the filter effect of App)
\* -------------------------------------------------------------------------

\* Mutant of Restricts: the 'All' sentinel is not looked for.
RestrictsIgnoringAll(selected) == Len(selected) > 0

\* selected.length > 0 && !selected.includes('All')
Restricts(selected) == Len(selected) > 0 /\ ~Includes(selected, All)

FilterSpecies(data, selected) ==
    IF Restricts(selected)
    THEN SelectSeq(data, LAMBDA d : Includes(selected, d.commonName))
    ELSE data

\* Mutant of FilterRegions: the callback tests the array name.
FilterRegionsByArrayName(data, selected) ==
    IF Len(selected) > 0 /\ ~Includes(selected, All)
    THEN SelectSeq(data, LAMBDA d : Includes(selected, d.arrayName))
    ELSE data

FilterRegions(data, selected) ==
    IF Restricts(selected)
    THEN SelectSeq(data, LAMBDA d : Includes(selected, d.region))
    ELSE data

FilterArrayNames(data, selected) ==
    IF Restricts(selected)
    THEN SelectSeq(data, LAMBDA d : Includes(selected, d.arrayName))
    ELSE data

\* (year - 2017) * 12 + month
monthIndex(date) == (getFullYear(date) - BaseYear) * 12 + getMonth(date)

\* Mutant of InMonthRange: an invalid date passes the filter.
InMonthRangeInvalidPasses(d, range) ==
    IF ~d.startTime.valid THEN TRUE
    ELSE (d.startTime.year - 2017) * 12 + d.startTime.month >= range[1]
         /\ (d.startTime.year - 2017) * 12 + d.startTime.month <= range[2]

\* Mutant of InMonthRange: the end of the range is excluded.
InMonthRangeExclusiveEnd(d, range) ==
    IF ~d.startTime.valid THEN FALSE
    ELSE (d.startTime.year - 2017) * 12 + d.startTime.month >= range[1]
         /\ (d.startTime.year - 2017) * 12 + d.startTime.month < range[2]

\* The callback of the month-range filter; new Date(d.startTime) copies
\* the Date, a Date object is never falsy.
InMonthRange(d, range) ==
    IF ~d.startTime.valid THEN FALSE
    ELSE monthIndex(d.startTime) >= range[1] /\ monthIndex(d.startTime) <= range[2]

\* Mutant of FilterMonthRange: the first record that passes is lost.
FilterMonthRangeSkipsFirst(data, range) ==
    LET kept == SelectSeq(data, LAMBDA d : d.startTime.valid
                              /\ (d.startTime.year - 2017) * 12 + d.startTime.month >= range[1]
                              /\ (d.startTime.year - 2017) * 12 + d.startTime.month <= range[2])
    IN  IF kept = <<>> THEN kept ELSE Tail(kept)

FilterMonthRange(data, range) ==
    SelectSeq(data, LAMBDA d : InMonthRange(d, range))

\* The body of the filter effect, from `let data = ...` to the value
\* handed to setFilteredData.
FilterEngine(data, selSpecies, selRegions, selArrayNames, range) ==
    FilterMonthRange(
        FilterArrayNames(
            FilterRegions(
                FilterSpecies(data, selSpecies),
                selRegions),
            selArrayNames),
        range)

\* Mutant of EffectInput: the effect narrows the previous result.
EffectInputPrevious == filteredData

\* The collection the filter effect starts from: let data = allData.
EffectInput == allData

\* -------------------------------------------------------------------------
\* Initial state and actions
\* -------------------------------------------------------------------------

\* The state after the first render and its effects: the load is in
\* flight, the filter effect has run over the empty base collection.
Init ==
    /\ \/ response = "csv" /\ rows \in RowSeqs
       \/ response = "http error" /\ rows = ErrorPageRows
       \/ response = "network error" /\ rows = <<>>
    /\ allData = <<>>
    /\ filteredData = <<>>
    /\ species = <<>>
    /\ regions = <<>>
    /\ arrayNames = <<>>
    /\ selectedSpecies = <<All>>
    /\ selectedRegions = <<All>>
    /\ selectedArrayNames = <<All>>
    /\ dateRange = <<minDate, maxDate>>
    /\ loading = TRUE
    /\ error = ""
    /\ effectPending = FALSE

\* loadDetectionData() resolves: the .then callback of the load effect.
\* fetch resolves for every answer of the server, response.ok is not read,
\* and Papa.parse of a text calls complete whatever the text holds.
\* setAllData changes a dependency of the filter effect.
LoadResolve ==
    /\ loading
    /\ response # "network error"
    /\ LET data == ProcessRows(rows)
       IN  /\ allData' = data
           /\ species' = <<All>> \o getUniqueSpecies(data)
           /\ regions' = <<All>> \o getUniqueRegions(data)
           /\ arrayNames' = <<All>> \o getUniqueArrayNames(data)
    /\ loading' = FALSE
    /\ effectPending' = TRUE
    /\ UNCHANGED <<response, rows, filteredData, selectedSpecies, selectedRegions,
                   selectedArrayNames, dateRange, error>>

\* Mutant of LoadReject: the .catch callback sets the message and fetches
\* again, and this time the server answers with a file.
LoadRejectRetries ==
    /\ loading
    /\ error = ""
    /\ error' = "Failed to load data: Failed to fetch"
    /\ response' = "csv"
    /\ rows' = <<Row(<<"2", "0", "1", "9">>, Deer, TimeMar2019, <<"2">>,
                     <<"4", "2", ".", "1">>, <<"-", "8", "4", ".", "5">>,
                     RegionUP, ArrayA1)>>
    /\ UNCHANGED <<allData, filteredData, species, regions, arrayNames,
                   selectedSpecies, selectedRegions, selectedArrayNames,
                   dateRange, loading, effectPending>>

\* loadDetectionData() rejects: fetch rejects when the server gives no
\* answer.  The .catch callback.
LoadReject ==
    /\ loading
    /\ response = "network error"
    /\ error' = "Failed to load data: Failed to fetch"
    /\ loading' = FALSE
    /\ UNCHANGED <<response, rows, allData, filteredData, species, regions, arrayNames,
                   selectedSpecies, selectedRegions, selectedArrayNames,
                   dateRange, effectPending>>

\* The filters are rendered only after a successful load, and React runs a
\* scheduled effect before it handles the next event.
ControlsShown == ~loading /\ error = "" /\ ~effectPending

\* Array.from(e.target.selectedOptions, option => option.value): the
\* chosen options in the order of the option list.
SelectedOptions(options, chosen) ==
    SelectSeq(options, LAMBDA o : o \in chosen)

\* Mutant of OrAll: an empty choice is kept as it is.
OrAllKeepsEmpty(options) == options

\* options.length > 0 ? options : ['All']
OrAll(options) == IF Len(options) > 0 THEN options ELSE <<All>>

\* onChange of the species select.
ChangeSpecies ==
    /\ ControlsShown
    /\ \E chosen \in SUBSET Range(species) :
          selectedSpecies' = OrAll(SelectedOptions(species, chosen))
    /\ effectPending' = TRUE
    /\ UNCHANGED <<response, rows, allData, filteredData, species, regions, arrayNames,
                   selectedRegions, selectedArrayNames, dateRange, loading, error>>

\* onClick of the species Clear Selection button.
ClearSpecies ==
    /\ ControlsShown
    /\ selectedSpecies' = <<All>>
    /\ effectPending' = TRUE
    /\ UNCHANGED <<response, rows, allData, filteredData, species, regions, arrayNames,
                   selectedRegions, selectedArrayNames, dateRange, loading, error>>

\* onChange of the region select.
ChangeRegions ==
    /\ ControlsShown
    /\ \E chosen \in SUBSET Range(regions) :
          selectedRegions' = OrAll(SelectedOptions(regions, chosen))
    /\ effectPending' = TRUE
    /\ UNCHANGED <<response, rows, allData, filteredData, species, regions, arrayNames,
                   selectedSpecies, selectedArrayNames, dateRange, loading, error>>

\* onClick of the region Clear Selection button.
ClearRegions ==
    /\ ControlsShown
    /\ selectedRegions' = <<All>>
    /\ effectPending' = TRUE
    /\ UNCHANGED <<response, rows, allData, filteredData, species, regions, arrayNames,
                   selectedSpecies, selectedArrayNames, dateRange, loading, error>>

\* onChange of the array select.
ChangeArrayNames ==
    /\ ControlsShown
    /\ \E chosen \in SUBSET Range(arrayNames) :
          selectedArrayNames' = OrAll(SelectedOptions(arrayNames, chosen))
    /\ effectPending' = TRUE
    /\ UNCHANGED <<response, rows, allData, filteredData, species, regions, arrayNames,
                   selectedSpecies, selectedRegions, dateRange, loading, error>>

\* onClick of the array Clear Selection button.
ClearArrayNames ==
    /\ ControlsShown
    /\ selectedArrayNames' = <<All>>
    /\ effectPending' = TRUE
    /\ UNCHANGED <<response, rows, allData, filteredData, species, regions, arrayNames,
                   selectedSpecies, selectedRegions, dateRange, loading, error>>

\* onChange of the range slider.
ChangeDateRange ==
    /\ ControlsShown
    /\ \E lo \in SliderStops, hi \in SliderStops :
          /\ lo <= hi
          /\ dateRange' = <<lo, hi>>
    /\ effectPending' = TRUE
    /\ UNCHANGED <<response, rows, allData, filteredData, species, regions, arrayNames,
                   selectedSpecies, selectedRegions, selectedArrayNames,
                   loading, error>>

\* Mutant of FilterEffect: the result is also written to the base collection.
FilterEffectNarrowsBase ==
    /\ effectPending
    /\ filteredData' = FilterEngine(allData, selectedSpecies, selectedRegions,
                                    selectedArrayNames, dateRange)
    /\ allData' = filteredData'
    /\ effectPending' = FALSE
    /\ UNCHANGED <<response, rows, species, regions, arrayNames, selectedSpecies,
                   selectedRegions, selectedArrayNames, dateRange, loading, error>>

\* The filter effect.
FilterEffect ==
    /\ effectPending
    /\ filteredData' = FilterEngine(EffectInput, selectedSpecies, selectedRegions,
                                    selectedArrayNames, dateRange)
    /\ effectPending' = FALSE
    /\ UNCHANGED <<response, rows, allData, species, regions, arrayNames, selectedSpecies,
                   selectedRegions, selectedArrayNames, dateRange, loading, error>>

Next ==
    \/ LoadResolve
    \/ LoadReject
    \/ ChangeSpecies
    \/ ClearSpecies
    \/ ChangeRegions
    \/ ClearRegions
    \/ ChangeArrayNames
    \/ ClearArrayNames
    \/ ChangeDateRange
    \/ FilterEffect

Spec == Init /\ [][Next]_vars

\* The filter effect has run for the current base collection and selection.
Settled == ~loading /\ error = "" /\ ~effectPending

\* -------------------------------------------------------------------------
\* A survey file with more species than the rankings keep
\* -------------------------------------------------------------------------

\* Largest number of rows that follow the fixed rows of the survey file.
MaxTail == 1

\* Nineteen detections of sixteen species at three camera locations and in
\* two regions, in March and April 2019; two of them carry no array name
\* and one no region.
SurveyRows ==
    <<
      Row(<<"2", "0", "1", "9">>, <<"B", "e", "a", "r">>, TimeMar2019, <<"2">>, <<"4", "2", ".", "1">>, <<"-", "8", "4", ".", "5">>, RegionUP, ArrayA1),
      Row(<<"2", "0", "1", "9">>, <<"L", "a", "r", "k">>, TimeApr2019, <<"1">>, <<"4", "5", ".", "0">>, <<"-", "8", "4", ".", "5">>, RegionUP, ArrayA1),
      Row(<<"2", "0", "1", "9">>, Deer, TimeMar2019, <<"3">>, <<"4", "5", ".", "0">>, <<"-", "8", "4", ".", "5">>, RegionUP, ArrayA1),
      Row(<<"2", "0", "1", "9">>, <<"B", "o", "a", "r">>, TimeApr2019, <<"2">>, <<"4", "2", ".", "1">>, <<"-", "8", "4", ".", "5">>, RegionUP, ArrayA1),
      Row(<<"2", "0", "1", "9">>, <<"D", "o", "e">>, TimeMar2019, <<"1">>, <<"4", "3", ".", "5">>, <<"-", "8", "5", ".", "0">>, EmptyStr, ArrayA1),
      Row(<<"2", "0", "1", "9">>, <<"L", "o", "o", "n">>, TimeApr2019, <<"2">>, <<"4", "5", ".", "0">>, <<"-", "8", "4", ".", "5">>, RegionUP, EmptyStr),
      Row(<<"2", "0", "1", "9">>, <<"F", "o", "a", "l">>, TimeMar2019, <<"1">>, <<"4", "2", ".", "1">>, <<"-", "8", "4", ".", "5">>, RegionUP, ArrayA1),
      Row(<<"2", "0", "1", "9">>, <<"D", "r", "a", "k", "e">>, TimeApr2019, <<"1">>, <<"4", "3", ".", "5">>, <<"-", "8", "5", ".", "0">>, <<"L", "P">>, ArrayA1),
      Row(<<"2", "0", "1", "9">>, <<"L", "a", "r", "k">>, TimeMar2019, <<"1">>, <<"4", "2", ".", "1">>, <<"-", "8", "4", ".", "5">>, RegionUP, ArrayA1),
      Row(<<"2", "0", "1", "9">>, <<"A", "r", "a">>, TimeMar2019, <<"2">>, <<"4", "5", ".", "0">>, <<"-", "8", "4", ".", "5">>, <<"L", "P">>, ArrayA1),
      Row(<<"2", "0", "1", "9">>, <<"L", "o", "x">>, TimeApr2019, <<"1">>, <<"4", "2", ".", "1">>, <<"-", "8", "4", ".", "5">>, RegionUP, EmptyStr),
      Row(<<"2", "0", "1", "9">>, <<"F", "a", "l", "k", "e">>, TimeMar2019, <<"1">>, <<"4", "5", ".", "0">>, <<"-", "8", "4", ".", "5">>, RegionUP, ArrayA1),
      Row(<<"2", "0", "1", "9">>, <<"P", "o", "l", "l", "a", "k">>, TimeApr2019, <<"2">>, <<"4", "3", ".", "5">>, <<"-", "8", "5", ".", "0">>, RegionUP, ArrayA1),
      Row(<<"2", "0", "1", "9">>, <<"D", "o", "l", "e">>, TimeMar2019, <<"1">>, <<"4", "2", ".", "1">>, <<"-", "8", "4", ".", "5">>, RegionUP, ArrayA1),
      Row(<<"2", "0", "1", "9">>, <<"B", "e", "a", "r", "l", "a", "k", "e">>, TimeApr2019, <<"1">>, <<"4", "5", ".", "0">>, <<"-", "8", "4", ".", "5">>, RegionUP, ArrayA1),
      Row(<<"2", "0", "1", "9">>, <<"e", "a", "D", "U", "r", "o", "k", "a">>, TimeMar2019, <<"1">>, <<"4", "3", ".", "5">>, <<"-", "8", "5", ".", "0">>, RegionUP, ArrayA1),
      Row(<<"2", "0", "1", "9">>, <<"P", "a", "l", "a">>, TimeApr2019, <<"1">>, <<"4", "2", ".", "1">>, <<"-", "8", "4", ".", "5">>, <<"L", "P">>, ArrayA1),
      Row(<<"2", "0", "1", "9">>, <<"L", "a", "r", "k">>, TimeApr2019, <<"1">>, <<"4", "3", ".", "5">>, <<"-", "8", "5", ".", "0">>, RegionUP, ArrayA1),
      Row(<<"2", "0", "1", "9">>, <<"B", "e", "a", "r">>, TimeApr2019, <<"1">>, <<"4", "2", ".", "1">>, <<"-", "8", "4", ".", "5">>, RegionUP, ArrayA1) >>

\* The survey files: the fixed rows followed by at most MaxTail rows.
SurveyFiles ==
    { SurveyRows \o tail : tail \in UNION { [1..n -> RowPool] : n \in 0..MaxTail } }

WideInit ==
    /\ \/ response = "csv" /\ rows \in SurveyFiles
       \/ response = "http error" /\ rows = ErrorPageRows
       \/ response = "network error" /\ rows = <<>>
    /\ allData = <<>>
    /\ filteredData = <<>>
    /\ species = <<>>
    /\ regions = <<>>
    /\ arrayNames = <<>>
    /\ selectedSpecies = <<All>>
    /\ selectedRegions = <<All>>
    /\ selectedArrayNames = <<All>>
    /\ dateRange = <<minDate, maxDate>>
    /\ loading = TRUE
    /\ error = ""
    /\ effectPending = FALSE

\* The species selections tried on the survey files.
SpeciesChoices ==
    { {},
      {Deer},
      {Deer, Fox},
      {All, <<"L", "a", "r", "k">>},
      {<<"B", "e", "a", "r">>, <<"L", "a", "r", "k">>, <<"D", "o", "e">>, Fox,
       <<"e", "a", "D", "U", "r", "o", "k", "a">>} }

\* onChange of the species select, for the selections above.
ChooseSpecies ==
    /\ ControlsShown
    /\ \E chosen \in SpeciesChoices :
          selectedSpecies' = OrAll(SelectedOptions(species, chosen \cap Range(species)))
    /\ effectPending' = TRUE
    /\ UNCHANGED <<response, rows, allData, filteredData, species, regions, arrayNames,
                   selectedRegions, selectedArrayNames, dateRange, loading, error>>

WideNext ==
    \/ LoadResolve
    \/ LoadReject
    \/ ChooseSpecies
    \/ ChangeArrayNames
    \/ ChangeDateRange
    \/ FilterEffect

WideSpec == WideInit /\ [][WideNext]_vars


\* -------------------------------------------------------------------------
\* Aggregator: activity histograms
\* -------------------------------------------------------------------------

\* Mutant of CountHour: the bucket grows by the group size.
CountHourWeighted(hourCounts, d) ==
    IF d.hour \in DOMAIN hourCounts
    THEN [hourCounts EXCEPT ![d.hour] = @ + d.groupSize]
    ELSE hourCounts

\* hourCounts[d.hour]++ : an index that is no bucket (NaN) leaves the
\* 24 buckets as they are.
CountHour(hourCounts, d) ==
    IF d.hour \in DOMAIN hourCounts
    THEN [hourCounts EXCEPT ![d.hour] = @ + 1]
    ELSE hourCounts

\* data.forEach(d => { hourCounts[d.hour]++; })
RECURSIVE ForEachHour(_, _)
ForEachHour(data, hourCounts) ==
    IF data = <<>> THEN hourCounts
    ELSE ForEachHour(Tail(data), CountHour(hourCounts, Head(data)))

getHourlyActivity(data) ==
    LET hourCounts == ForEachHour(data, [h \in 0..23 |-> 0])
    IN  [i \in 1..24 |-> [hour |-> i - 1, count |-> hourCounts[i - 1]]]

\* monthCounts[d.month]++
CountMonth(monthCounts, d) ==
    IF d.month \in DOMAIN monthCounts
    THEN [monthCounts EXCEPT ![d.month] = @ + 1]
    ELSE monthCounts

\* data.forEach(d => { monthCounts[d.month]++; })
RECURSIVE ForEachMonth(_, _)
ForEachMonth(data, monthCounts) ==
    IF data = <<>> THEN monthCounts
    ELSE ForEachMonth(Tail(data), CountMonth(monthCounts, Head(data)))

monthNames ==
    <<"Jan", "Feb", "Mar", "Apr", "May", "Jun",
      "Jul", "Aug", "Sep", "Oct", "Nov", "Dec">>

getMonthlyActivity(data) ==
    LET monthCounts == ForEachMonth(data, [m \in 0..11 |-> 0])
    IN  [i \in 1..12 |-> [month |-> i - 1, monthName |-> monthNames[i],
                          count |-> monthCounts[i - 1]]]

\* const hourlyData = getHourlyActivity(filteredData)
hourlyData == getHourlyActivity(filteredData)

\* const monthlyData = getMonthlyActivity(filteredData)
monthlyData == getMonthlyActivity(filteredData)

\* -------------------------------------------------------------------------
\* Aggregator: location keys and species rankings
\* -------------------------------------------------------------------------

DigitChar == <<"0", "1", "2", "3", "4", "5", "6", "7", "8", "9">>

\* The decimal digits of a natural number.
RECURSIVE IntDigits(_)
IntDigits(k) ==
    IF k < 10 THEN <<DigitChar[k + 1]>>
    ELSE IntDigits(k \div 10) \o <<DigitChar[(k % 10) + 1]>>

\* Number.prototype.toString of a coordinate counted in tenths: 421 is
\* "42.1", -845 is "-84.5", 450 is "45".
NumberToString(n) ==
    LET a == IF n < 0 THEN -n ELSE n
    IN  (IF n < 0 THEN <<"-">> ELSE <<>>)
        \o IntDigits(a \div 10)
        \o (IF a % 10 = 0 THEN <<>> ELSE <<".", DigitChar[(a % 10) + 1]>>)

\* const locationKey = `${d.latitude},${d.longitude}`
LocationKey(d) ==
    NumberToString(d.latitude) \o <<",">> \o NumberToString(d.longitude)

\* The index of the entry of a species in a Map kept in insertion order,
\* 0 when the Map has no such key.
RECURSIVE EntryIndex(_, _)
EntryIndex(entries, name) ==
    IF entries = <<>> THEN 0
    ELSE IF entries[Len(entries)].species = name
              /\ EntryIndex(SubSeq(entries, 1, Len(entries) - 1), name) = 0
         THEN Len(entries)
         ELSE EntryIndex(SubSeq(entries, 1, Len(entries) - 1), name)

\* The number of entries kept by slice(0, 15).
TopSpecies == 15

\* slice(0, n)
Slice(s, n) == SubSeq(s, 1, IF Len(s) < n THEN Len(s) ELSE n)

\* Mutant of InsertByCount: an entry goes in front of the entries it ties with.
InsertByCountBeforeTies(sorted, e) ==
    LET before == SelectSeq(sorted, LAMBDA x : x.count > e.count)
        after  == SelectSeq(sorted, LAMBDA x : x.count <= e.count)
    IN  before \o <<e>> \o after

\* One step of the stable sort with comparator (a, b) => b.count - a.count:
\* the entry goes behind every entry whose count is not smaller.
InsertByCount(sorted, e) ==
    LET before == SelectSeq(sorted, LAMBDA x : x.count >= e.count)
        after  == SelectSeq(sorted, LAMBDA x : x.count < e.count)
    IN  before \o <<e>> \o after

\* .sort((a, b) => b.count - a.count): Array.prototype.sort is stable.
RECURSIVE SortByCount(_)
SortByCount(entries) ==
    IF entries = <<>> THEN <<>>
    ELSE InsertByCount(SortByCount(SubSeq(entries, 1, Len(entries) - 1)),
                       entries[Len(entries)])

\* counts.set(d.commonName, (counts.get(d.commonName) || 0) + d.groupSize)
AddGroupSize(counts, d) ==
    LET i == EntryIndex(counts, d.commonName)
    IN  IF i = 0
        THEN Append(counts, [species |-> d.commonName, count |-> 0 + d.groupSize])
        ELSE [counts EXCEPT ![i].count = @ + d.groupSize]

RECURSIVE ForEachFrequency(_, _)
ForEachFrequency(data, counts) ==
    IF data = <<>> THEN counts
    ELSE ForEachFrequency(Tail(data), AddGroupSize(counts, Head(data)))

\* getSpeciesFrequency
getSpeciesFrequency(data) ==
    Slice(SortByCount(ForEachFrequency(data, <<>>)), TopSpecies)

\* const speciesFrequencyCounts = getSpeciesFrequency(filteredData)
speciesFrequencyCounts == getSpeciesFrequency(filteredData)

\* Mutant of AddCamera: every detection counts, also one at a camera
\* already in the set.
AddCameraPerDetection(camerasBySpecies, d) ==
    LET i == EntryIndex(camerasBySpecies, d.commonName)
    IN  IF i = 0
        THEN Append(camerasBySpecies,
                    [species |-> d.commonName, cameras |-> {<<1, LocationKey(d)>>}])
        ELSE [camerasBySpecies EXCEPT
                 ![i].cameras = @ \cup {<<Cardinality(@) + 1, LocationKey(d)>>}]

\* The body of the forEach of getSpeciesDetectionCounts: the species gets
\* an empty Set when it is new, and the location key is added to its Set.
AddCamera(camerasBySpecies, d) ==
    LET i == EntryIndex(camerasBySpecies, d.commonName)
    IN  IF i = 0
        THEN Append(camerasBySpecies,
                    [species |-> d.commonName, cameras |-> {} \cup {LocationKey(d)}])
        ELSE [camerasBySpecies EXCEPT ![i].cameras = @ \cup {LocationKey(d)}]

RECURSIVE ForEachCamera(_, _)
ForEachCamera(data, camerasBySpecies) ==
    IF data = <<>> THEN camerasBySpecies
    ELSE ForEachCamera(Tail(data), AddCamera(camerasBySpecies, Head(data)))

\* getSpeciesDetectionCounts
getSpeciesDetectionCounts(data) ==
    LET camerasBySpecies == ForEachCamera(data, <<>>)
        counted == [i \in 1..Len(camerasBySpecies) |->
                       [species |-> camerasBySpecies[i].species,
                        count   |-> Cardinality(camerasBySpecies[i].cameras)]]
    IN  Slice(SortByCount(counted), TopSpecies)

\* const speciesCameraCounts = getSpeciesDetectionCounts(filteredData)
speciesCameraCounts == getSpeciesDetectionCounts(filteredData)

\* -------------------------------------------------------------------------
\* Aggregator: array species table
\* -------------------------------------------------------------------------

\* Number.prototype.toFixed(1) of cameras / totalCameras * 100: the
\* quotient in tenths rounded to the nearest, a half upwards, written
\* with one fractional digit.  The quotients whose second fractional
\* digit is an exact 5 are dyadic and exact in floating point.
ToFixed1(cameras, totalCameras) ==
    LET tenths == (cameras * 2000 + totalCameras) \div (2 * totalCameras)
    IN  IntDigits(tenths \div 10) \o <<".", DigitChar[(tenths % 10) + 1]>>

\* Mutant of Proportion: the factor 100 is forgotten.
ProportionAsFraction(cameras, totalCameras) ==
    IF totalCameras > 0
    THEN LET tenths == (cameras * 20 + totalCameras) \div (2 * totalCameras)
         IN  IntDigits(tenths \div 10) \o <<".", DigitChar[(tenths % 10) + 1]>>
    ELSE <<"0", ".", "0">>

\* totalCameras > 0 ? (data.cameras.size / totalCameras * 100).toFixed(1) : '0.0'
Proportion(cameras, totalCameras) ==
    IF totalCameras > 0 THEN ToFixed1(cameras, totalCameras) ELSE <<"0", ".", "0">>

\* Mutant of AddToSpeciesMap: a record of a species already in the map
\* replaces its total group size.
AddToSpeciesMapOverwrites(speciesMap, d) ==
    LET i == EntryIndex(speciesMap, d.commonName)
    IN  IF i # 0
        THEN [speciesMap EXCEPT ![i].totalGroupSize = d.groupSize,
                                ![i].cameras = @ \cup {LocationKey(d)}]
        ELSE Append(speciesMap, [species        |-> d.commonName,
                                 totalGroupSize |-> d.groupSize,
                                 cameras        |-> {LocationKey(d)}])

\* The speciesMap part of the forEach of getArraySpeciesTable.
AddToSpeciesMap(speciesMap, d) ==
    LET i == EntryIndex(speciesMap, d.commonName)
    IN  IF i # 0
        THEN [speciesMap EXCEPT ![i].totalGroupSize = @ + d.groupSize,
                                ![i].cameras = @ \cup {LocationKey(d)}]
        ELSE Append(speciesMap, [species        |-> d.commonName,
                                 totalGroupSize |-> d.groupSize,
                                 cameras        |-> {LocationKey(d)}])

RECURSIVE ForEachSpeciesMap(_, _)
ForEachSpeciesMap(data, speciesMap) ==
    IF data = <<>> THEN speciesMap
    ELSE ForEachSpeciesMap(Tail(data), AddToSpeciesMap(speciesMap, Head(data)))

\* The allCameras part of the forEach of getArraySpeciesTable.
AllCameras(data) == { LocationKey(data[i]) : i \in 1..Len(data) }

\* One step of the stable sort with comparator
\* (a, b) => b.totalGroupSize - a.totalGroupSize.
InsertByTotal(sorted, e) ==
    LET before == SelectSeq(sorted, LAMBDA x : x.totalGroupSize >= e.totalGroupSize)
        after  == SelectSeq(sorted, LAMBDA x : x.totalGroupSize < e.totalGroupSize)
    IN  before \o <<e>> \o after

\* .sort((a, b) => b.totalGroupSize - a.totalGroupSize)
RECURSIVE SortByTotal(_)
SortByTotal(tableRows) ==
    IF tableRows = <<>> THEN <<>>
    ELSE InsertByTotal(SortByTotal(SubSeq(tableRows, 1, Len(tableRows) - 1)),
                       tableRows[Len(tableRows)])

\* getArraySpeciesTable
getArraySpeciesTable(data) ==
    LET speciesMap   == ForEachSpeciesMap(data, <<>>)
        totalCameras == Cardinality(AllCameras(data))
        mapped == [i \in 1..Len(speciesMap) |->
                      [species         |-> speciesMap[i].species,
                       totalGroupSize  |-> speciesMap[i].totalGroupSize,
                       distinctCameras |-> Cardinality(speciesMap[i].cameras),
                       totalCameras    |-> totalCameras,
                       proportion      |-> Proportion(Cardinality(speciesMap[i].cameras),
                                                      totalCameras)]]
    IN  SortByTotal(mapped)

\* const showArrayTable =
\*     !selectedArrayNames.includes('All') && selectedArrayNames.length > 0
showArrayTable == ~Includes(selectedArrayNames, All) /\ Len(selectedArrayNames) > 0

\* Mutant of arrayFilteredData: the slice is the globally filtered collection.
arrayFilteredDataBySpeciesToo ==
    IF showArrayTable
    THEN FilterEngine(allData, selectedSpecies, selectedRegions,
                      selectedArrayNames, dateRange)
    ELSE <<>>

\* const arrayFilteredData: the base collection filtered by region, array
\* name and date range with the tests of the filter effect, not by species.
arrayFilteredData ==
    IF showArrayTable
    THEN FilterMonthRange(
             FilterArrayNames(FilterRegions(allData, selectedRegions),
                              selectedArrayNames),
             dateRange)
    ELSE <<>>

\* const arraySpeciesTable
arraySpeciesTable ==
    IF showArrayTable THEN getArraySpeciesTable(arrayFilteredData) ELSE <<>>

\* -------------------------------------------------------------------------
\* Geo-Clusterer: species colors
\* -------------------------------------------------------------------------

\* const colors
colors ==
    << "#e74c3c", "#3498db", "#2ecc71", "#f39c12", "#9b59b6",
       "#1abc9c", "#e67e22", "#34495e", "#16a085", "#c0392b",
       "#2980b9", "#8e44ad", "#27ae60", "#d35400", "#c0392b" >>

\* The hash is a JavaScript number that leaves the 32-bit range: it is kept
\* as a pair <<hi, lo>> that stands for hi * 65536 + lo, with lo in
\* 0..65535 and hi of either sign.
Half == 65536

\* hash << 5: ToInt32 of the hash, shifted, as a 32-bit two's complement
\* number.
ShiftLeft5(h) ==
    LET low  == h[2] * 32
        high == (h[1] * 32 + low \div Half) % Half
    IN  <<IF high >= Half \div 2 THEN high - Half ELSE high, low % Half>>

\* a - b for two numbers kept as pairs.
Minus(a, b) ==
    IF a[2] >= b[2] THEN <<a[1] - b[1], a[2] - b[2]>>
    ELSE <<a[1] - b[1] - 1, a[2] - b[2] + Half>>

\* c + a for a character code c and a number kept as a pair.
PlusCode(c, a) ==
    IF a[2] + c < Half THEN <<a[1], a[2] + c>> ELSE <<a[1] + 1, a[2] + c - Half>>

\* The loop of getSpeciesColor:
\* hash = species.charCodeAt(i) + ((hash << 5) - hash).
RECURSIVE HashLoop(_, _)
HashLoop(name, hash) ==
    IF name = <<>> THEN hash
    ELSE HashLoop(Tail(name),
                  PlusCode(CharCode[Head(name)], Minus(ShiftLeft5(hash), hash)))

\* Math.abs of a number kept as a pair.
Abs(h) ==
    IF h[1] >= 0 THEN h
    ELSE IF h[2] = 0 THEN <<-h[1], 0>> ELSE <<-h[1] - 1, Half - h[2]>>

\* The remainder of a pair by n, with the sign of the dividend as the %
\* of JavaScript has it.
Remainder(h, n) ==
    LET a == Abs(h)
        r == ((a[1] % n) * (Half % n) + (a[2] % n)) % n
    IN  IF h[1] >= 0 THEN r ELSE -r

\* Mutant of ColorIndex: Math.abs is forgotten.
ColorIndexSigned(name) == Remainder(HashLoop(name, <<0, 0>>), Len(colors))

\* Math.abs(hash) % colors.length
ColorIndex(name) == Remainder(Abs(HashLoop(name, <<0, 0>>)), Len(colors))

\* getSpeciesColor: colors[i] is undefined when i is not an index of colors.
getSpeciesColor(name) ==
    LET i == ColorIndex(name)
    IN  IF i \in 0..(Len(colors) - 1) THEN colors[i + 1] ELSE "undefined"

\* -------------------------------------------------------------------------
\* Geo-Clusterer: map points
\* -------------------------------------------------------------------------

\* Mutant of showSpeciesColors: on for every selection but 'All' alone.
showSpeciesColorsUnlessOnlyAll ==
    Len(selectedSpecies) > 0 /\ selectedSpecies # <<All>>

\* const showSpeciesColors =
\*     selectedSpecies.length > 0 && !selectedSpecies.includes('All')
showSpeciesColors == Len(selectedSpecies) > 0 /\ ~Includes(selectedSpecies, All)

\* d.groupSize || 1
GroupSizeOrOne(d) == IF d.groupSize = 0 THEN 1 ELSE d.groupSize

\* The index of the entry of a key in the Map of locations, 0 when the Map
\* has no such key.
RECURSIVE KeyIndex(_, _)
KeyIndex(acc, key) ==
    IF acc = <<>> THEN 0
    ELSE IF acc[1].key = key THEN 1
    ELSE LET i == KeyIndex(Tail(acc), key) IN IF i = 0 THEN 0 ELSE i + 1

\* Mutant of SetSpeciesCount: the current count is not read.
SetSpeciesCountFromZero(speciesCounts, d) ==
    LET i == EntryIndex(speciesCounts, d.commonName)
    IN  IF i = 0
        THEN Append(speciesCounts,
                    [species |-> d.commonName, count |-> GroupSizeOrOne(d)])
        ELSE [speciesCounts EXCEPT ![i].count = GroupSizeOrOne(d)]

\* location.species.set(d.commonName, currentCount + (d.groupSize || 1)),
\* location.species.get(d.commonName) || 0 being the current count.
SetSpeciesCount(speciesCounts, d) ==
    LET i == EntryIndex(speciesCounts, d.commonName)
    IN  IF i = 0
        THEN Append(speciesCounts,
                    [species |-> d.commonName, count |-> 0 + GroupSizeOrOne(d)])
        ELSE [speciesCounts EXCEPT ![i].count = @ + GroupSizeOrOne(d)]

\* Mutant of Reducer: the location is looked up by longitude alone.
ReducerByLongitude(acc, d) ==
    LET found == { i \in 1..Len(acc) : acc[i].lng = d.longitude }
        i     == IF found = {} THEN 0 ELSE CHOOSE k \in found : TRUE
        with  == IF i = 0
                 THEN Append(acc, [key |-> LocationKey(d), lat |-> d.latitude,
                                   lng |-> d.longitude, species |-> <<>>,
                                   totalCount |-> 0])
                 ELSE acc
        k     == IF i = 0 THEN Len(with) ELSE i
    IN  [with EXCEPT ![k].species = SetSpeciesCount(@, d),
                     ![k].totalCount = @ + GroupSizeOrOne(d)]

\* The reducer of locations: the location of the key is created when it is
\* new, then the count of the species and the total of the location grow by
\* the group size.
Reducer(acc, d) ==
    LET i    == KeyIndex(acc, LocationKey(d))
        with == IF i = 0
                THEN Append(acc, [key |-> LocationKey(d), lat |-> d.latitude,
                                  lng |-> d.longitude, species |-> <<>>,
                                  totalCount |-> 0])
                ELSE acc
        k    == IF i = 0 THEN Len(with) ELSE i
    IN  [with EXCEPT ![k].species = SetSpeciesCount(@, d),
                     ![k].totalCount = @ + GroupSizeOrOne(d)]

RECURSIVE Reduce(_, _)
Reduce(data, acc) ==
    IF data = <<>> THEN acc ELSE Reduce(Tail(data), Reducer(acc, Head(data)))

\* filteredData.filter(d => d.latitude && d.longitude).reduce(..., new Map())
Locations(data) ==
    Reduce(SelectSeq(data, LAMBDA d : d.latitude # 0 /\ d.longitude # 0), <<>>)

AllSpecies == <<"A", "l", "l", " ", "S", "p", "e", "c", "i", "e", "s">>

\* Mutant of SpeciesList: without colors the list still has one entry for
\* each species.
SpeciesListAlwaysBroken(loc, showColors) ==
    [i \in 1..Len(loc.species) |->
        [species |-> loc.species[i].species,
         count   |-> loc.species[i].count,
         color   |-> IF showColors THEN getSpeciesColor(loc.species[i].species)
                     ELSE "#4A90E2"]]

\* const speciesList
SpeciesList(loc, showColors) ==
    IF showColors
    THEN [i \in 1..Len(loc.species) |->
             [species |-> loc.species[i].species,
              count   |-> loc.species[i].count,
              color   |-> getSpeciesColor(loc.species[i].species)]]
    ELSE <<[species |-> AllSpecies, count |-> loc.totalCount, color |-> "#4A90E2"]>>

\* Array.from(locations.values()).map(loc => ...)
MapPoints(locs, showColors) ==
    [i \in 1..Len(locs) |->
        [lat        |-> locs[i].lat,
         lng        |-> locs[i].lng,
         species    |-> SpeciesList(locs[i], showColors),
         totalCount |-> locs[i].totalCount,
         showColors |-> showColors]]

\* const locations
locations == Locations(filteredData)

\* const mapPoints
mapPoints == MapPoints(locations, showSpeciesColors)

\* -------------------------------------------------------------------------
\* MapView: markers
\* -------------------------------------------------------------------------

\* createPieMarker: one path for each entry of the species list, filled
\* with the color of the entry.
createPieMarker(speciesCounts) ==
    [k \in 1..Len(speciesCounts) |-> speciesCounts[k].color]

\* Mutant of MarkerOf: in color mode every point gets a pie.
MarkerOfPieInColorMode(point) ==
    IF ~point.showColors
    THEN [kind |-> "CircleMarker", fillColor |-> point.species[1].color,
          slices |-> <<>>]
    ELSE [kind |-> "Marker", fillColor |-> "",
          slices |-> createPieMarker(point.species)]

\* The callback of points.map in MapView: a CircleMarker filled with the
\* color of the first entry when isSingleSpecies || !point.showColors, a
\* Marker with the pie icon otherwise.
MarkerOf(point) ==
    LET isSingleSpecies == Len(point.species) = 1
    IN  IF isSingleSpecies \/ ~point.showColors
        THEN [kind |-> "CircleMarker", fillColor |-> point.species[1].color,
              slices |-> <<>>]
        ELSE [kind |-> "Marker", fillColor |-> "",
              slices |-> createPieMarker(point.species)]

\* points.map(...) over the map points of App
markers == [i \in 1..Len(mapPoints) |-> MarkerOf(mapPoints[i])]

\* -------------------------------------------------------------------------
\* Summary cards
\* -------------------------------------------------------------------------

\* const totalCameraLocations: the location keys of the base collection
\* filtered by region and array name.
totalCameraLocations ==
    LET located == SelectSeq(allData, LAMBDA d : d.latitude # 0 /\ d.longitude # 0)
        data    == FilterArrayNames(FilterRegions(located, selectedRegions),
                                    selectedArrayNames)
    IN  Cardinality({ LocationKey(data[i]) : i \in 1..Len(data) })

\* const distinctCamerasWithDetections: the location keys of the filtered
\* collection.
distinctCamerasWithDetections ==
    LET located == SelectSeq(filteredData, LAMBDA d : d.latitude # 0 /\ d.longitude # 0)
    IN  Cardinality({ LocationKey(located[i]) : i \in 1..Len(located) })

\* =========================================================================
\* Properties
\* =========================================================================

\* The load has resolved.
Loaded == ~loading /\ error = ""

\* The sum of the count fields of a sequence of entries.
RECURSIVE SumCounts(_)
SumCounts(entries) ==
    IF entries = <<>> THEN 0 ELSE Head(entries).count + SumCounts(Tail(entries))

\* The month index of a valid timestamp as section 4.3 defines it, with
\* 2017 as the base year.
SpecMonthIndex(t) == (t.year - 2017) * 12 + t.month

\* A selected set imposes no restriction when it holds "All" or is empty.
Unrestricted(selected) == All \in Range(selected) \/ selected = <<>>

\* The three set predicates of section 4.3 for a record.
MatchesSets(d, selSpecies, selRegions, selArrayNames) ==
    /\ Unrestricted(selSpecies) \/ d.commonName \in Range(selSpecies)
    /\ Unrestricted(selRegions) \/ d.region \in Range(selRegions)
    /\ Unrestricted(selArrayNames) \/ d.arrayName \in Range(selArrayNames)

\* The date predicate of section 4.3 for a record.
MatchesDates(d, range) ==
    /\ d.startTime.valid
    /\ range[1] <= SpecMonthIndex(d.startTime)
    /\ SpecMonthIndex(d.startTime) <= range[2]

\* A row that survives normalization although its start_time is unreadable.
DateInvalidRow(row) ==
    /\ KeepRow(row)
    /\ ~ParseInt(row.Year).nan /\ ParseInt(row.Year).val > 0
    /\ OrDefault(ParseFloat(row.Latitude), 0) # 0
    /\ OrDefault(ParseFloat(row.Longitude), 0) # 0
    /\ ~ParseDate(row.start_time).valid

\* A row that breaks the invariant of the working set after per-field
\* parsing.
ViolatesInvariant(row) ==
    \/ ~Truthy(row.common_name)
    \/ OrDefault(ParseInt(row.Year), 0) <= 0
    \/ OrDefault(ParseFloat(row.Latitude), 0) = 0
    \/ OrDefault(ParseFloat(row.Longitude), 0) = 0

\* The rows of the pool that break the invariant, and those that survive
\* with an unreadable start_time; the record each row of the pool maps to.
ViolatingRows == { r \in RowPool : ViolatesInvariant(r) }

DateInvalidRows == { r \in RowPool : DateInvalidRow(r) }

ProcessedRow == [r \in RowPool |-> ProcessRow(r)]

\* C1: every record of the normalized collection has year > 0, a non-zero
\* latitude and longitude and a non-empty commonName, and the collection
\* holds no more records than the file has rows that keep the invariant: a
\* row that violates it after per-field parsing is absent.
C1_NormalizedInvariant ==
    /\ \A i \in 1..Len(allData) :
          /\ allData[i].year > 0
          /\ allData[i].latitude # 0
          /\ allData[i].longitude # 0
          /\ Truthy(allData[i].commonName)
    /\ Len(allData) <= Cardinality({ i \in 1..Len(rows) : rows[i] \notin ViolatingRows })
    /\ \A i \in 1..Len(rows) :
          rows[i] \in ViolatingRows => ProcessedRow[rows[i]] \notin Range(allData)

\* C1 witness: a loaded file of which one row was kept and one was dropped
\* for its year or its coordinates.
C1_Witness ==
    /\ Loaded
    /\ Len(allData) >= 1
    /\ \E i \in 1..Len(rows) : KeepRow(rows[i]) /\ rows[i] \in ViolatingRows

\* C2 (as amended): once the filter effect has run, the filtered collection
\* is exactly the base records, in order, that satisfy all four predicates
\* at once, a set predicate being skipped when its selected set contains
\* "All" or is empty; the same holds of the filter applied to empty
\* selected sets.
C2_FilterIsConjunction ==
    /\ Settled =>
          filteredData =
              SelectSeq(allData,
                        LAMBDA d : /\ MatchesSets(d, selectedSpecies, selectedRegions,
                                                  selectedArrayNames)
                                   /\ MatchesDates(d, dateRange))
    /\ FilterEngine(allData, <<>>, <<>>, <<>>, dateRange) =
          SelectSeq(allData, LAMBDA d : MatchesDates(d, dateRange))

\* C2 witness: a species and an array are selected and the filter keeps
\* some records of the base collection and leaves some out.
C2_Witness ==
    /\ Settled
    /\ ~Unrestricted(selectedSpecies)
    /\ ~Unrestricted(selectedArrayNames)
    /\ filteredData # <<>>
    /\ Len(filteredData) < Len(allData)

\* A set predicate read literally: skipped only when the selected set is
\* exactly {"All"} or empty.
SkippedLiterally(selected) == Range(selected) = {All} \/ selected = <<>>

\* C2 as stated: the filtered collection is exactly the base records that
\* satisfy all four predicates, each set predicate being skipped only when
\* its selected set is {"All"} or empty.
C2_AsStated ==
    Settled =>
        filteredData =
            SelectSeq(allData,
                      LAMBDA d :
                          /\ SkippedLiterally(selectedSpecies)
                                \/ d.commonName \in Range(selectedSpecies)
                          /\ SkippedLiterally(selectedRegions)
                                \/ d.region \in Range(selectedRegions)
                          /\ SkippedLiterally(selectedArrayNames)
                                \/ d.arrayName \in Range(selectedArrayNames)
                          /\ MatchesDates(d, dateRange))

\* Every set dimension is set to exactly ["All"].
AllOnEveryDimension ==
    /\ selectedSpecies = <<All>>
    /\ selectedRegions = <<All>>
    /\ selectedArrayNames = <<All>>

\* C3 (as amended): with {"All"} on the species, region and array
\* dimensions the filter returns, in the order of the input, exactly the
\* input records that have a valid startTime whose month index lies in the
\* selected date range; no record is dropped for its species, region or
\* array, and none of those with such a startTime is dropped.
C3_AllKeepsDatedRecords ==
    Settled /\ AllOnEveryDimension =>
        /\ filteredData = SelectSeq(allData, LAMBDA d : MatchesDates(d, dateRange))
        /\ (\A i \in 1..Len(allData) : MatchesDates(allData[i], dateRange))
              => filteredData = allData

\* C3 witness: All on every dimension over a base collection of two
\* records, one of which has no valid startTime in the range.
C3_Witness ==
    /\ Settled
    /\ AllOnEveryDimension
    /\ Len(allData) = 2
    /\ Len(filteredData) = 1

\* C3 as stated, for base collections whose dated records all lie on the
\* slider: with All on every dimension and the full date range the filter
\* returns the full input collection unchanged.
C3_AsStated ==
    /\ Settled
    /\ AllOnEveryDimension
    /\ dateRange = <<minDate, maxDate>>
    /\ \A i \in 1..Len(allData) :
          allData[i].startTime.valid
              => SpecMonthIndex(allData[i].startTime) \in minDate..maxDate
    => filteredData = allData

\* C4: a row with a parseable Year, non-zero coordinates and an unreadable
\* start_time is kept in the base collection and is in no filtered
\* collection, whatever the selection.
C4_DateInvalidKeptButFilteredOut ==
    Loaded =>
        \A i \in 1..Len(rows) :
            rows[i] \in DateInvalidRows =>
                /\ ProcessedRow[rows[i]] \in Range(allData)
                /\ ProcessedRow[rows[i]] \notin Range(filteredData)

\* C4 witness: such a record is in the base collection, All is selected on
\* every dimension with the full date range and the filter has run.
C4_Witness ==
    /\ Settled
    /\ AllOnEveryDimension
    /\ dateRange = <<minDate, maxDate>>
    /\ \E i \in 1..Len(rows) :
          rows[i] \in DateInvalidRows /\ ProcessedRow[rows[i]] \in Range(allData)
    /\ filteredData # <<>>

\* C5: a record with a valid startTime that matches the three set
\* predicates is in the filtered collection exactly when
\* startMonthIndex <= (year - 2017) * 12 + month <= endMonthIndex, both
\* ends included; a record of March 2019 has month index 26.
C5_MonthIndexRange ==
    Settled =>
        \A i \in 1..Len(allData) :
            LET d == allData[i]
            IN  d.startTime.valid
                /\ MatchesSets(d, selectedSpecies, selectedRegions, selectedArrayNames)
                => /\ d \in Range(filteredData)
                        <=> /\ dateRange[1] <= (d.startTime.year - 2017) * 12 + d.startTime.month
                            /\ (d.startTime.year - 2017) * 12 + d.startTime.month <= dateRange[2]
                   /\ d.startTime.year = 2019 /\ d.startTime.month = 2
                        => (d \in Range(filteredData)
                               <=> dateRange[1] <= 26 /\ 26 <= dateRange[2])

\* C5 witness: the range is the single month 26 and the filtered collection
\* holds a record of March 2019 while a record of April 2019 is left out.
C5_Witness ==
    /\ Settled
    /\ dateRange = <<26, 26>>
    /\ \E i \in 1..Len(filteredData) :
          filteredData[i].startTime.year = 2019 /\ filteredData[i].startTime.month = 2
    /\ \E i \in 1..Len(allData) :
          /\ allData[i].startTime.valid
          /\ allData[i].startTime.month = 3
          /\ allData[i] \notin Range(filteredData)

\* C6: month index 0 is January of the first year of the data, so every
\* record of the base collection with a valid startTime has a month index
\* >= 0 and is selected by some date range the slider can be set to.
C6_EveryDatedRecordSelectable ==
    Loaded =>
        \A i \in 1..Len(allData) :
            allData[i].startTime.valid =>
                /\ monthIndex(allData[i].startTime) >= 0
                /\ \E lo \in minDate..maxDate, hi \in minDate..maxDate :
                      lo <= hi /\ InMonthRange(allData[i], <<lo, hi>>)

\* C7: filtering the filtered collection again with the same selection
\* gives the same collection, record for record.
C7_FilterIdempotent ==
    Settled =>
        FilterEngine(filteredData, selectedSpecies, selectedRegions,
                     selectedArrayNames, dateRange) = filteredData

\* C7 witness: a restricting selection has left a non-empty filtered
\* collection smaller than the base collection.
C7_Witness ==
    /\ Settled
    /\ ~Unrestricted(selectedSpecies)
    /\ dateRange # <<minDate, maxDate>>
    /\ Len(filteredData) >= 1
    /\ Len(filteredData) < Len(allData)

\* C8: once the filter effect has run, the filtered collection is a function
\* of the base collection and the current selection alone, the filter of
\* the whole base collection, whatever was selected before.
C8_NoCumulativeNarrowing ==
    Settled =>
        filteredData = FilterEngine(allData, selectedSpecies, selectedRegions,
                                    selectedArrayNames, dateRange)

\* C8 witness: the region and the date range have both been changed, so
\* the effect has run over at least two earlier selections, and the
\* filtered collection holds a record while the base collection holds more.
C8_Witness ==
    /\ Settled
    /\ selectedRegions = <<RegionUP>>
    /\ dateRange = <<26, maxDate>>
    /\ filteredData # <<>>
    /\ Len(filteredData) < Len(allData)

\* C9: the base collection changes only in the step that ends the load, and
\* after the load has ended neither it nor the loading flag changes again.
C9_BaseSetOnce ==
    [][/\ ~loading => ~loading' /\ allData' = allData
       /\ allData' # allData => loading /\ allData = <<>> /\ ~loading']_vars

\* C9 witness: a loaded, non-empty base collection after a selection change
\* and a run of the filter effect.
C9_Witness ==
    /\ Settled
    /\ allData # <<>>
    /\ selectedSpecies # <<All>>
    /\ dateRange # <<minDate, maxDate>>
    /\ Len(filteredData) < Len(allData)

\* C10: the hourly activity has 24 entries for the hours 0..23 in order and
\* the monthly activity 12 entries for the months 0..11 in order, each
\* count being the number of records of the filtered collection in that
\* bucket; the hourly counts and the monthly counts each sum to the number
\* of records.
C10_Histograms ==
    LET hourly  == hourlyData
        monthly == monthlyData
    IN  /\ Len(hourly) = 24
        /\ \A i \in 1..24 :
              /\ hourly[i].hour = i - 1
              /\ hourly[i].count =
                    Cardinality({ k \in 1..Len(filteredData) : filteredData[k].hour = i - 1 })
        /\ Len(monthly) = 12
        /\ \A i \in 1..12 :
              /\ monthly[i].month = i - 1
              /\ monthly[i].count =
                    Cardinality({ k \in 1..Len(filteredData) : filteredData[k].month = i - 1 })
        /\ SumCounts(hourly) = Len(filteredData)
        /\ SumCounts(monthly) = Len(filteredData)

\* C10 witness: a filtered collection of two records, one of them a group
\* of more than one animal.
C10_Witness ==
    /\ Settled
    /\ Len(filteredData) = 2
    /\ \E i \in 1..Len(filteredData) : filteredData[i].groupSize > 1

\* The sum of the group sizes of a collection.
RECURSIVE SumGroupSize(_)
SumGroupSize(data) ==
    IF data = <<>> THEN 0 ELSE Head(data).groupSize + SumGroupSize(Tail(data))

\* The species names of a collection.
SpeciesOf(data) == { data[i].commonName : i \in 1..Len(data) }

\* The records of one species.
RecordsOf(data, name) == SelectSeq(data, LAMBDA d : d.commonName = name)

\* The position of the first record of a species.
FirstRecord(data, name) ==
    CHOOSE i \in 1..Len(data) :
        /\ data[i].commonName = name
        /\ \A j \in 1..(i - 1) : data[j].commonName # name

\* C11: for every collection the normalizer can produce, group sizes that
\* parsed negative included, the species frequency has at most 15 entries and
\* at most one per distinct species, and the sum of its counts is at most
\* the sum of the group sizes of all records.
C11_FrequencyBoundedByTotal ==
    Settled =>
        LET top == speciesFrequencyCounts
        IN  /\ Len(top) <= 15
            /\ Len(top) <= Cardinality(SpeciesOf(filteredData))
            /\ SumCounts(top) <= SumGroupSize(filteredData)

\* C12: the species frequency gives each species the sum of the group sizes
\* of its records, lists the species by that sum in descending order with
\* ties in the order in which the species are first met, and keeps the first
\* 15 of that list.
C12_FrequencyRanking ==
    Settled =>
        LET data   == filteredData
            top    == speciesFrequencyCounts
            names  == SpeciesOf(data)
            total  == [n \in names |-> SumGroupSize(RecordsOf(data, n))]
            first  == [n \in names |-> FirstRecord(data, n)]
            Ranks(a, b) ==
                \/ total[a] > total[b]
                \/ total[a] = total[b] /\ first[a] < first[b]
            kept   == { top[i].species : i \in 1..Len(top) }
        IN  /\ Len(top) = IF Cardinality(names) < 15 THEN Cardinality(names) ELSE 15
            /\ \A i \in 1..Len(top) :
                  /\ top[i].species \in names
                  /\ top[i].count = total[top[i].species]
            /\ \A i \in 1..Len(top) : \A j \in (i + 1)..Len(top) :
                  Ranks(top[i].species, top[j].species)
            /\ \A n \in names \ kept : \A m \in kept : Ranks(m, n)

\* C12 witness: more than 15 species are shown, one of them with several
\* records, and two neighbours of the ranking tie while two others do not.
C12_Witness ==
    /\ Settled
    /\ Cardinality(SpeciesOf(filteredData)) > 15
    /\ \E n \in SpeciesOf(filteredData) : Len(RecordsOf(filteredData, n)) > 1
    /\ LET top == speciesFrequencyCounts
       IN  /\ Len(top) = 15
           /\ \E i \in 1..14 : top[i].count = top[i + 1].count
           /\ \E i \in 1..14 : top[i].count > top[i + 1].count

\* The "lat,lng" key of a record as section 4.4 defines it: the pair of its
\* coordinates.
Camera(d) == <<d.latitude, d.longitude>>

\* The distinct cameras of a collection.
CamerasOf(data) == { Camera(data[i]) : i \in 1..Len(data) }

\* C13: the species detection counts give each species the number of
\* distinct location keys among its records, whatever the number of records
\* and their group sizes, list the species by that number in descending
\* order and keep at most 15 of them.
C13_CameraCoverage ==
    Settled =>
        LET data   == filteredData
            top    == speciesCameraCounts
            names  == SpeciesOf(data)
            covers == [n \in names |-> Cardinality(CamerasOf(RecordsOf(data, n)))]
            kept   == { top[i].species : i \in 1..Len(top) }
        IN  /\ Len(top) = IF Cardinality(names) < 15 THEN Cardinality(names) ELSE 15
            /\ Cardinality(kept) = Len(top)
            /\ \A i \in 1..Len(top) :
                  /\ top[i].species \in names
                  /\ top[i].count = covers[top[i].species]
            /\ \A i \in 1..(Len(top) - 1) : top[i].count >= top[i + 1].count
            /\ \A n \in names \ kept : \A m \in kept : covers[m] >= covers[n]

\* C13 witness: more than 15 species are shown; one has several records at
\* one camera and counts 1, another is seen at three cameras and counts 3.
C13_Witness ==
    /\ Settled
    /\ Cardinality(SpeciesOf(filteredData)) > 15
    /\ LET top == speciesCameraCounts
       IN  /\ \E i \in 1..Len(top) :
                 /\ top[i].count = 1
                 /\ Len(RecordsOf(filteredData, top[i].species)) > 1
                 /\ SumGroupSize(RecordsOf(filteredData, top[i].species)) > 2
           /\ \E i \in 1..Len(top) : top[i].count = 3

\* C14: the array species table has one row per distinct species of its
\* slice, with the sum of the group sizes of the species and the number of
\* distinct location keys of the species; every row carries the same
\* totalCameras, the number of distinct location keys of the whole slice;
\* the rows are in descending order of total group size.
C14_ArrayTableRows ==
    showArrayTable =>
        LET data  == arrayFilteredData
            table == arraySpeciesTable
            names == SpeciesOf(data)
        IN  /\ Len(table) = Cardinality(names)
            /\ { table[i].species : i \in 1..Len(table) } = names
            /\ \A i \in 1..Len(table) :
                  LET own == RecordsOf(data, table[i].species)
                  IN  /\ table[i].totalGroupSize = SumGroupSize(own)
                      /\ table[i].distinctCameras = Cardinality(CamerasOf(own))
                      /\ table[i].totalCameras = Cardinality(CamerasOf(data))
            /\ \A i \in 1..(Len(table) - 1) :
                  table[i].totalGroupSize >= table[i + 1].totalGroupSize

\* C14 witness: the table of a slice with three cameras; one species has
\* several records and a larger total than its number of records, and two
\* species differ in their number of cameras.
C14_Witness ==
    /\ showArrayTable
    /\ LET table == arraySpeciesTable
       IN  /\ Len(table) > 2
           /\ table[1].totalCameras = 3
           /\ \E i, j \in 1..Len(table) :
                 table[i].distinctCameras < table[j].distinctCameras
           /\ \E i \in 1..Len(table) :
                 /\ Len(RecordsOf(arrayFilteredData, table[i].species)) > 1
                 /\ table[i].totalGroupSize >
                        Len(RecordsOf(arrayFilteredData, table[i].species))

\* C15: when the slice has no camera every proportion is "0.0" and nothing
\* is divided by zero, so every proportion is a number with one fractional
\* digit; a species seen at every camera of the slice has "100.0".
C15_ProportionGuarded ==
    /\ Proportion(0, 0) = <<"0", ".", "0">>
    /\ showArrayTable =>
          LET table == arraySpeciesTable
          IN  \A i \in 1..Len(table) :
                 LET p == table[i].proportion
                 IN  /\ Len(p) >= 3
                     /\ p[Len(p) - 1] = "."
                     /\ \A k \in (1..Len(p)) \ {Len(p) - 1} : p[k] \in Digits
                     /\ table[i].totalCameras = 0 => p = <<"0", ".", "0">>
                     /\ (table[i].totalCameras > 0
                         /\ table[i].distinctCameras = table[i].totalCameras)
                           => p = <<"1", "0", "0", ".", "0">>

\* C15 witness: a table over three cameras in which one species is seen at
\* all of them and another at one only.
C15_Witness ==
    /\ showArrayTable
    /\ LET table == arraySpeciesTable
       IN  /\ \E i \in 1..Len(table) :
                 table[i].distinctCameras = 3 /\ table[i].totalCameras = 3
           /\ \E i \in 1..Len(table) :
                 table[i].proportion = <<"3", "3", ".", "3">>

\* C15, the slice without cameras: an array is selected and no record of it
\* lies in the date range, the table is computed and has no row.
C15_EmptySlice ==
    /\ showArrayTable
    /\ ~loading
    /\ allData # <<>>
    /\ arrayFilteredData = <<>>
    /\ arraySpeciesTable = <<>>

\* C16: the array species table is computed from the base collection
\* filtered by region, array and date range but not by species: a step that
\* leaves the base collection and the region, array and date selections as
\* they are, whatever it does to the species selection, leaves every row of
\* the table as it is.
C16_TableIgnoresSpecies ==
    [][ ( /\ allData' = allData
          /\ selectedRegions' = selectedRegions
          /\ selectedArrayNames' = selectedArrayNames
          /\ dateRange' = dateRange )
        => \A slice \in {arrayFilteredData'} :
              (IF showArrayTable' THEN getArraySpeciesTable(slice) ELSE <<>>)
                  = arraySpeciesTable ]_vars

\* C16 witness: an array is selected, the species selection restricts the
\* filtered collection, and the table shows a species that is not selected.
C16_Witness ==
    /\ Settled
    /\ showArrayTable
    /\ Restricts(selectedSpecies)
    /\ \E i \in 1..Len(arraySpeciesTable) :
          /\ ~Includes(selectedSpecies, arraySpeciesTable[i].species)
          /\ \A k \in 1..Len(filteredData) :
                filteredData[k].commonName # arraySpeciesTable[i].species

\* The records of a collection at one camera.
RecordsAt(data, lat, lng) ==
    SelectSeq(data, LAMBDA d : d.latitude = lat /\ d.longitude = lng)

\* The sum of the totalCount fields of the map points.
RECURSIVE SumTotalCount(_)
SumTotalCount(points) ==
    IF points = <<>> THEN 0
    ELSE Head(points).totalCount + SumTotalCount(Tail(points))

\* C17: the map has as many points as the filtered collection has distinct
\* "lat,lng" pairs, and the totals of the points sum to the sum of the group
\* sizes of the filtered collection.
C17_PointsPartitionRecords ==
    LET points == mapPoints
    IN  /\ Len(points) = Cardinality(CamerasOf(filteredData))
        /\ { <<points[i].lat, points[i].lng>> : i \in 1..Len(points) }
              = CamerasOf(filteredData)
        /\ SumTotalCount(points) = SumGroupSize(filteredData)

\* C17 witness: records of several species at three cameras, more records
\* than cameras, one of them a group of several animals.
C17_Witness ==
    /\ Settled
    /\ Len(mapPoints) = 3
    /\ Len(filteredData) > 3
    /\ Cardinality(SpeciesOf(filteredData)) > 3
    /\ \E i \in 1..Len(filteredData) : filteredData[i].groupSize > 1

\* The example of section 8: two groups of deer and one fox at one camera.
ExampleRecords ==
    ProcessRows(
        << Row(<<"2", "0", "1", "9">>, Deer, TimeMar2019, <<"2">>, <<"4", "2", ".", "1">>,
               <<"-", "8", "4", ".", "5">>, RegionUP, ArrayA1),
           Row(<<"2", "0", "1", "9">>, Deer, TimeApr2019, <<"3">>, <<"4", "2", ".", "1">>,
               <<"-", "8", "4", ".", "5">>, RegionUP, ArrayA1),
           Row(<<"2", "0", "1", "9">>, Fox, TimeMar2019, <<"1">>, <<"4", "2", ".", "1">>,
               <<"-", "8", "4", ".", "5">>, RegionUP, ArrayA1) >>)

\* The species and the count of every entry of a species list.
NamesAndCounts(speciesList) ==
    [i \in 1..Len(speciesList) |-> <<speciesList[i].species, speciesList[i].count>>]

\* C18: with the color breakdown on, the list of every point has one entry
\* for each distinct species at that location, in the order in which the
\* species are first seen there, each with the sum of the group sizes of the
\* species there, and the entries sum to the total of the point; two groups
\* of 2 and 3 deer and one fox at one location give [Deer 5, Fox 1], total 6.
C18_ColorBreakdown ==
    /\ LET example == MapPoints(Locations(ExampleRecords), TRUE)
       IN  /\ Len(example) = 1
           /\ example[1].lat = 421 /\ example[1].lng = -845
           /\ NamesAndCounts(example[1].species) = <<<<Deer, 5>>, <<Fox, 1>>>>
           /\ example[1].totalCount = 6
    /\ showSpeciesColors =>
          LET points == mapPoints
          IN  \A i \in 1..Len(points) :
                 LET here == RecordsAt(filteredData, points[i].lat, points[i].lng)
                     list == points[i].species
                 IN  /\ Len(list) = Cardinality(SpeciesOf(here))
                     /\ \A k \in 1..Len(list) :
                           /\ list[k].species \in SpeciesOf(here)
                           /\ list[k].count = SumGroupSize(RecordsOf(here, list[k].species))
                     /\ \A k \in 1..(Len(list) - 1) :
                           FirstRecord(here, list[k].species)
                               < FirstRecord(here, list[k + 1].species)
                     /\ SumCounts(list) = points[i].totalCount

\* C18 witness: the colors are on and a point lists two species or more, the
\* first of them with two records there; another point lists one species.
C18_Witness ==
    /\ Settled
    /\ showSpeciesColors
    /\ \E i, j \in 1..Len(mapPoints) :
          /\ Len(mapPoints[i].species) > 1
          /\ Len(RecordsOf(RecordsAt(filteredData, mapPoints[i].lat, mapPoints[i].lng),
                           mapPoints[i].species[1].species)) > 1
          /\ Len(mapPoints[j].species) = 1

\* C19: with the color breakdown off, the list of every point has exactly
\* one entry, labelled "All Species", whose count is the total of the point
\* and whose color is the fixed neutral color.
C19_SingleNeutralEntry ==
    ~showSpeciesColors =>
        LET points == mapPoints
        IN  \A i \in 1..Len(points) :
               /\ Len(points[i].species) = 1
               /\ points[i].species[1].species = AllSpecies
               /\ points[i].species[1].count = points[i].totalCount
               /\ points[i].species[1].color = "#4A90E2"
               /\ points[i].totalCount
                     = SumGroupSize(RecordsAt(filteredData, points[i].lat, points[i].lng))

\* C19 witness: the colors are off and a point stands for several species.
C19_Witness ==
    /\ Settled
    /\ ~showSpeciesColors
    /\ Len(mapPoints) = 3
    /\ \E i \in 1..Len(mapPoints) :
          /\ Cardinality(SpeciesOf(RecordsAt(filteredData, mapPoints[i].lat,
                                             mapPoints[i].lng))) > 2
          /\ mapPoints[i].totalCount > 3

\* C20: the color of a species depends on its name alone: for every name,
\* the empty one included, Math.abs(hash) mod 15 is an index 0..14 of the
\* palette also when the hash wraps around 32 bits or is the most negative
\* 32-bit number, a palette color is returned, and the entries of one
\* species have one color wherever they are shown.
C20_ColorOfNameAlone ==
    /\ \A name \in Range(species) \cup {EmptyStr} :
          /\ ColorIndex(name) \in 0..14
          /\ getSpeciesColor(name) \in Range(colors)
    /\ showSpeciesColors =>
          LET points == mapPoints
              shown  == UNION { Range(points[i].species) : i \in 1..Len(points) }
          IN  /\ \A a \in shown : a.color \in Range(colors)
              /\ \A a, b \in shown : a.species = b.species => a.color = b.color

\* C20 witness: a species whose hash is the most negative 32-bit number is
\* shown in color, and another name of the file has a hash that wraps.
C20_Witness ==
    LET mostNegative == <<"e", "a", "D", "U", "r", "o", "k", "a">>
        wraps        == <<"B", "e", "a", "r", "l", "a", "k", "e">>
    IN  /\ Settled
        /\ showSpeciesColors
        /\ HashLoop(mostNegative, <<0, 0>>) = <<-32768, 0>>
        /\ ColorIndex(mostNegative) = 8
        /\ \E i \in 1..Len(mapPoints) : \E k \in 1..Len(mapPoints[i].species) :
              /\ mapPoints[i].species[k].species = mostNegative
              /\ mapPoints[i].species[k].color = colors[9]
        /\ Includes(species, wraps)
        /\ HashLoop(SubSeq(wraps, 1, 7), <<0, 0>>)[1] < -32768
        /\ \E i, j \in 1..Len(mapPoints) :
              i # j /\ \E a \in Range(mapPoints[i].species) :
                          \E b \in Range(mapPoints[j].species) : a.species = b.species

\* The load has failed: the server gave no answer, or it answered with an
\* HTTP error.
LoadFailed == response # "csv"

\* The dashboard with the filters and the views is rendered.
DashboardShown == ~loading /\ error = ""

\* C21: every load failure, the row source being unreachable (a network
\* failure or an HTTP error response) or unparseable as a whole, ends in the
\* error state with a non-empty message and an empty base collection, and
\* the dashboard is never shown after it.
C21_FailedLoadShowsError ==
    (LoadFailed /\ ~loading) =>
        /\ error # ""
        /\ allData = <<>>
        /\ ~DashboardShown

\* C22: once the error message is set it is never cleared, no second load
\* is started, the base collection stays empty, and the loading flag, once
\* false, never becomes true again.
C22_ErrorIsTerminal ==
    [][ /\ error # "" => ( /\ error' = error
                           /\ allData = <<>> /\ allData' = <<>>
                           /\ ~loading /\ ~loading'
                           /\ rows' = rows /\ response' = response )
        /\ ~loading => ~loading' ]_vars

\* C22 witness: the load has failed and the message is shown.
C22_Witness ==
    /\ response = "network error"
    /\ error = "Failed to load data: Failed to fetch"
    /\ ~loading
    /\ allData = <<>>

\* A row has a common name as section 4.2 asks: the field is there, it is
\* not the sentinel "Blank" and some character of it is not a blank.
Named(row) ==
    /\ row.common_name # Undefined
    /\ row.common_name # Blank
    /\ \E k \in 1..Len(row.common_name) : row.common_name[k] # " "

\* The rows the files of either specification are made of, those of them
\* with a common name, and the record each of them maps to.
FileRows == RowPool \cup Range(SurveyRows) \cup Range(ErrorPageRows)

NamedRows == { r \in FileRows : Named(r) }

RecordOfRow == [r \in NamedRows |-> ProcessRow(r)]

\* C23: every row whose common name is missing, blank after trimming or
\* "Blank" is excluded from the normalized collection whatever its other
\* fields hold, and excluding it raises no error: the load resolves with the
\* records of the other rows alone.
C23_UnnamedRowsExcluded ==
    (~loading /\ response # "network error") =>
        /\ error = ""
        /\ \A i \in 1..Len(allData) :
              /\ allData[i].commonName \notin {Undefined, EmptyStr, Blank}
              /\ Trim(allData[i].commonName) # EmptyStr
        /\ LET named  == SelectSeq(rows, LAMBDA r : r \in NamedRows)
               mapped == [i \in 1..Len(named) |-> RecordOfRow[named[i]]]
           IN  allData = SelectSeq(mapped, KeepRecord)

\* C23 witness: a loaded file whose last row is named "Blank" and has a
\* year, a date and coordinates that would keep it.
C23_Witness ==
    /\ Loaded
    /\ Len(rows) > Len(allData)
    /\ LET last == rows[Len(rows)]
       IN  /\ last.common_name = Blank
           /\ KeepRecord(ProcessRow(last))

\* The group size section 4.2 asks for: the integer read from group_size
\* when the field is numeric, 1 when it is not or is absent.
SpecGroupSize(row) ==
    LET n == ParseInt(row.group_size) IN IF n.nan THEN 1 ELSE n.val

\* C24: for every kept row the group size of the record is the integer
\* parsed from group_size whenever the field is numeric, for every integer
\* value, 0 included, and is 1 exactly when the field is non-numeric or
\* absent.
C24_GroupSizeAsParsed ==
    Loaded =>
        LET kept == SelectSeq(rows, LAMBDA r : r \in NamedRows /\ KeepRecord(RecordOfRow[r]))
        IN  /\ Len(allData) = Len(kept)
            /\ \A i \in 1..Len(allData) :
                  allData[i].groupSize = SpecGroupSize(kept[i])

\* a comes before b in lexicographic order of the character codes: they
\* agree up to a position where a ends or has the smaller code.
LexLess(a, b) ==
    \E k \in 1..Len(b) :
        /\ k <= Len(a) + 1
        /\ \A j \in 1..(k - 1) : a[j] = b[j]
        /\ k = Len(a) + 1 \/ CharCode[a[k]] < CharCode[b[k]]

\* A list holds exactly the values of a set, each once, in ascending order.
SortedListOf(list, values) ==
    /\ Range(list) = values
    /\ \A i \in 1..(Len(list) - 1) : LexLess(list[i], list[i + 1])

C26_ViewsFollowSelection ==
    DashboardShown =>
        filteredData = FilterEngine(allData, selectedSpecies, selectedRegions,
                                    selectedArrayNames, dateRange)

\* C28: in every rendered state after the load the count of cameras with
\* detections is at most the count of camera locations, after any sequence
\* of selection and date-range changes.
C28_DetectionsWithinLocations ==
    DashboardShown => distinctCamerasWithDetections <= totalCameraLocations

\* C28 in the states in which the filter effect has run: the count of
\* cameras with detections is at most the count of camera locations.
C28_HoldsOnceSettled ==
    Settled => distinctCamerasWithDetections <= totalCameraLocations

\* C27: a map point is drawn as a pie marker of several slices exactly when
\* the color mode is on and more than one species is listed at it; a point
\* of one species under color mode, and every point when the color mode is
\* off, is drawn as one solid marker in the color of its first, only entry.
C27_PieOnlyForSeveralSpecies ==
    LET points == mapPoints
    IN  \A i \in 1..Len(points) :
           LET here   == SpeciesOf(RecordsAt(filteredData, points[i].lat, points[i].lng))
               marker == MarkerOf(points[i])
           IN  /\ marker.kind = "Marker" <=> (showSpeciesColors /\ Cardinality(here) > 1)
               /\ marker.kind = "Marker" =>
                     /\ Len(marker.slices) = Cardinality(here)
                     /\ Len(marker.slices) > 1
               /\ marker.kind # "Marker" =>
                     /\ marker.kind = "CircleMarker"
                     /\ Len(points[i].species) = 1
                     /\ marker.fillColor = points[i].species[1].color
                     /\ marker.fillColor =
                           IF showSpeciesColors
                           THEN getSpeciesColor(CHOOSE n \in here : TRUE)
                           ELSE "#4A90E2"

\* C27 witness: under color mode one point is a pie and another, of one
\* species, is a solid marker.
C27_Witness ==
    /\ Settled
    /\ showSpeciesColors
    /\ \E i, j \in 1..Len(markers) :
          /\ markers[i].kind = "Marker"
          /\ markers[j].kind = "CircleMarker"

\* A selection as a change handler or a Clear button leaves it: 'All'
\* alone, or some of the options in the order of the option list.
WellFormedSelection(selected, options) ==
    /\ Len(selected) > 0
    /\ \/ selected = <<All>>
       \/ selected = SelectedOptions(options, Range(selected))

\* C29: in every reachable state each of the species, region and array
\* selections is non-empty: a step that changes one of them, a change that
\* deselects every option and a Clear included, leaves 'All' alone or a
\* non-empty choice among the options.
C29_SelectionsNeverEmpty ==
    [][/\ Len(selectedSpecies) > 0
       /\ Len(selectedRegions) > 0
       /\ Len(selectedArrayNames) > 0
       /\ WellFormedSelection(selectedSpecies', species')
       /\ WellFormedSelection(selectedRegions', regions')
       /\ WellFormedSelection(selectedArrayNames', arrayNames')]_vars

\* C29 witness: the species selection is back to 'All' alone while the
\* derived collection still holds the result for Deer alone, and the region
\* selection is a restricted one.
C29_Witness ==
    /\ ~loading
    /\ error = ""
    /\ effectPending
    /\ selectedSpecies = <<All>>
    /\ selectedRegions # <<All>>
    /\ \E i \in 1..Len(allData) : allData[i].commonName # Deer
    /\ Len(filteredData) > 0
    /\ \A i \in 1..Len(filteredData) : filteredData[i].commonName = Deer

\* C30: a selection that holds 'All' together with other values behaves as
\* 'All' alone: the field does not restrict the filter, a species selection
\* of this kind leaves the color mode off, and an array selection of this
\* kind leaves the array table hidden.
C30_AllWithOthersIsAll ==
    Settled =>
       /\ Includes(selectedSpecies, All) =>
             /\ filteredData = FilterEngine(allData, <<All>>, selectedRegions,
                                            selectedArrayNames, dateRange)
             /\ ~showSpeciesColors
             /\ \A i \in 1..Len(mapPoints) : ~mapPoints[i].showColors
       /\ Includes(selectedRegions, All) =>
             filteredData = FilterEngine(allData, selectedSpecies, <<All>>,
                                         selectedArrayNames, dateRange)
       /\ Includes(selectedArrayNames, All) =>
             /\ filteredData = FilterEngine(allData, selectedSpecies, selectedRegions,
                                            <<All>>, dateRange)
             /\ ~showArrayTable
             /\ arraySpeciesTable = <<>>

\* C30 witness: the species and the array selections hold 'All' and another
\* option, the region selection holds 'All' and another option or 'All'
\* alone, and the derived collection keeps a record the other options
\* leave out.
C30_Witness ==
    /\ Settled
    /\ Includes(selectedSpecies, All) /\ Len(selectedSpecies) > 1
    /\ Includes(selectedArrayNames, All) /\ Len(selectedArrayNames) > 1
    /\ Includes(selectedRegions, All)
    /\ \E i \in 1..Len(filteredData) :
          /\ ~Includes(selectedSpecies, filteredData[i].commonName)
          /\ ~Includes(selectedArrayNames, filteredData[i].arrayName)

====
